---- MODULE Spec2Model ----
(***************************************************************************)
(* Model of the GitHub advisory fetcher: src/main.py (command driver),     *)
(* src/cli_parser.py (flags) and src/github_advisory_client.py (one GET    *)
(* per page, page iterator).                                               *)
(*                                                                         *)
(* The program is sequential.  One control point `pc` walks through        *)
(*   main -> config -> loop <-> yield -> output -> exit        (CLI run)   *)
(*   main ->           loop <-> yield -> returned | raised     (API call)  *)
(* The second line is a direct caller doing list(client.iter_advisories()) *)
(* with the method's own defaults: only there can max_pages be None, since *)
(* the command line always supplies an integer (default 1).                *)
(*                                                                         *)
(* The remote API is the environment: every GET is answered by any         *)
(* response of HttpResponses.  The code never looks inside an advisory, so *)
(* each array element is labelled by the page that was asked for and its   *)
(* position in the array; `obj` says whether it is a JSON object.          *)
(*                                                                         *)
(* A run with max_pages = None need not end, so the page counter is        *)
(* followed exactly only below PageCap (see there).                        *)
(*                                                                         *)
(* Optional values (Python None) are sequences of length at most one.  A   *)
(* text (file content, standard output) is a sequence of tokens; an        *)
(* advisory is written as one opaque token, since it is passed through.    *)
(***************************************************************************)
EXTENDS Integers, Sequences, FiniteSets, TLC

VARIABLES
    pc,          \* control point of the run
    caller,      \* "cli" for main(), "api" for a direct call of iter_advisories
    args,        \* the parsed command line (or the arguments of the direct call)
    env,         \* GITHUB_TIMEOUT_S and GITHUB_API_SLEEP_S as os.getenv returned them
    client,      \* the GitHubAdvisoryClient
    sleep_s,     \* the inter-page delay, in thousandths of a second
    page,        \* iter_advisories: the page counter
    response,    \* the last HTTP response received
    advisories,  \* iter_advisories: what is left of the current page to yield
    items,       \* the records list(...) has collected
    requests,    \* page numbers of the GETs issued so far, in order
    fetched,     \* the lists fetch_advisories has returned so far, in order
    error,       \* the exception propagating out of iter_advisories, if any
    stdout, stderr,
    file,        \* content of the --out file, or Untouched
    exitCode

vars == <<pc, caller, args, env, client, sleep_s, page, response, advisories,
          items, requests, fetched, error, stdout, stderr, file, exitCode>>

----------------------------------------------------------------------------
(* Bounds of the model *)

\* largest max_pages that is tried
MaxPagesBound == 2
\* largest number of elements the remote puts in one array
MaxPerPage == 2

\* The page counter is followed exactly below PageCap; every larger value is
\* identified with PageCap.  Only a run with max_pages = None gets there; what it
\* has collected is then no longer followed: `items`, `requests` and `fetched`
\* are emptied and stay empty (see Tracked and NextPage).
PageCap == MaxPagesBound + 2

----------------------------------------------------------------------------
(* Optional values *)

None == <<>>
Some(x) == <<x>>
IsNone(o) == o = <<>>
Val(o) == o[1]

(* the `x or default` idiom on an optional string: None and "" are falsy *)
OrDefault(o, d) == IF IsNone(o) \/ Val(o) = <<>> THEN d ELSE Val(o)

----------------------------------------------------------------------------
(* Environment values and their numeric conversion.  A string is a sequence *)
(* of one-character strings.                                                *)

Digits == {"0", "1", "2", "3", "4", "5", "6", "7", "8", "9"}

DigitVal(c) ==
    CASE c = "0" -> 0 [] c = "1" -> 1 [] c = "2" -> 2 [] c = "3" -> 3
      [] c = "4" -> 4 [] c = "5" -> 5 [] c = "6" -> 6 [] c = "7" -> 7
      [] c = "8" -> 8 [] c = "9" -> 9

RECURSIVE DecimalValue(_)
DecimalValue(s) ==
    IF s = <<>> THEN 0
    ELSE 10 * DecimalValue(SubSeq(s, 1, Len(s) - 1)) + DigitVal(s[Len(s)])

AllDigits(s) == \A i \in 1..Len(s) : s[i] \in Digits

\* int(s) raises ValueError unless s is a decimal integer literal
IntParses(s) == s # <<>> /\ AllDigits(s)
IntValue(s) == DecimalValue(s)

DotsAt(s) == {i \in 1..Len(s) : s[i] = "."}

\* float(s) raises ValueError unless s is a decimal literal with at most one point
FloatParses(s) ==
    /\ \A i \in 1..Len(s) : s[i] \in Digits \cup {"."}
    /\ Cardinality(DotsAt(s)) <= 1
    /\ \E i \in 1..Len(s) : s[i] \in Digits

\* the value of float(s), in thousandths (literals carry at most 3 decimals)
RECURSIVE Pad3(_)
Pad3(f) == IF Len(f) >= 3 THEN SubSeq(f, 1, 3) ELSE Pad3(Append(f, "0"))

FloatMillis(s) ==
    IF DotsAt(s) = {} THEN 1000 * DecimalValue(s)
    ELSE LET d == CHOOSE i \in DotsAt(s) : TRUE
         IN  1000 * DecimalValue(SubSeq(s, 1, d - 1))
               + DecimalValue(Pad3(SubSeq(s, d + 1, Len(s))))

DefaultTimeout == <<"3", "0">>
DefaultSleep == <<"0", ".", "0">>

\* what GITHUB_TIMEOUT_S may hold: "", "7", "0.5", "x"
TimeoutEnvValues == {Some(<<>>), Some(<<"7">>), Some(<<"0", ".", "5">>), Some(<<"x">>)}

\* what GITHUB_API_SLEEP_S may hold: unset, "0.5", ".", "x"
SleepEnvValues == {None, Some(<<"0", ".", "5">>), Some(<<".">>), Some(<<"x">>)}

\* what GITHUB_TOKEN (or github_token) may hold: unset, "", "t"
TokenValues == {None, Some(<<>>), Some(<<"t">>)}

NoEnv == [timeout |-> None, sleep |-> None]

----------------------------------------------------------------------------
(* Responses of the remote API *)

Element(p, i, isObj) == [obj |-> isObj, page |-> p, idx |-> i]

ArraysFor(p) ==
    UNION {{[i \in 1..n |-> Element(p, i, mask[i])] : mask \in [1..n -> BOOLEAN]}
             : n \in 0..MaxPerPage}

EmptyBody == [t |-> "empty", elems |-> <<>>]
ObjectBody == [t |-> "object", elems |-> <<>>]
ArrayBody(a) == [t |-> "array", elems |-> a]

HttpResponses(p) ==
    {[status |-> 200, body |-> b] :
        b \in {EmptyBody, ObjectBody} \cup {ArrayBody(a) : a \in ArraysFor(p)}}
    \cup {[status |-> 403, body |-> ObjectBody]}

NoResponse == [status |-> 0, body |-> EmptyBody]

----------------------------------------------------------------------------
(* GitHubAdvisoryClient *)

NoError == [msg |-> "", code |-> 0, got |-> ""]
HttpError(code) == [msg |-> "GitHub API request failed (HTTP)", code |-> code, got |-> ""]
NotListError(typeName) ==
    [msg |-> "Expected list response from API", code |-> 0, got |-> typeName]

\* json.loads on a non-empty body
json_loads(body) ==
    IF body.t = "array" THEN [t |-> "list", elems |-> body.elems]
    ELSE [t |-> "dict", elems |-> <<>>]

PyNone == [t |-> "NoneType", elems |-> <<>>]

JsonDecodeError == [msg |-> "JSONDecodeError", code |-> 0, got |-> ""]

\* variant of _fetch_json without the `if text else None` guard
FetchJsonDecodesEmptyText(r) ==
    IF r.status # 200 THEN [raised |-> HttpError(r.status), value |-> PyNone]
    ELSE IF r.body.t = "empty" THEN [raised |-> JsonDecodeError, value |-> PyNone]
    ELSE [raised |-> NoError, value |-> json_loads(r.body)]

\* _fetch_json: the decoded body, or the error raised for a non-success status
_fetch_json(r) ==
    IF r.status # 200 THEN [raised |-> HttpError(r.status), value |-> PyNone]
    ELSE [raised |-> NoError,
          value |-> IF r.body.t = "empty" THEN PyNone ELSE json_loads(r.body)]

IsDict(e) == e.obj

\* [item for item in response if isinstance(item, dict)]
OnlyDicts(elems) == SelectSeq(elems, IsDict)

\* variant of fetch_advisories that returns the array as it came
FetchAdvisoriesUnfiltered(r) ==
    LET got == _fetch_json(r)
    IN  IF got.raised # NoError THEN [raised |-> got.raised, value |-> <<>>]
        ELSE IF got.value.t # "list"
               THEN [raised |-> NotListError(got.value.t), value |-> <<>>]
               ELSE [raised |-> NoError, value |-> got.value.elems]

\* fetch_advisories: one page, as the list of its object entries, or an error
fetch_advisories(r) ==
    LET got == _fetch_json(r)
    IN  IF got.raised # NoError THEN [raised |-> got.raised, value |-> <<>>]
        ELSE IF got.value.t # "list"
               THEN [raised |-> NotListError(got.value.t), value |-> <<>>]
               ELSE [raised |-> NoError, value |-> OnlyDicts(got.value.elems)]

\* variant of the loop condition that is one page late
LoopCondOffByOne(p, mp) == IF IsNone(mp) THEN TRUE ELSE p <= Val(mp) + 1

\* variant of the loop condition that never looks at max_pages
LoopCondNoLimit(p, mp) == TRUE

\* `while max_pages is None or page <= max_pages`
LoopCond(p, mp) == IF IsNone(mp) THEN TRUE ELSE p <= Val(mp)

\* the run is still inside the window in which the logs are exact
Tracked == page < PageCap

\* variant of the page step that skips a page
NextPageNoSkips(p) == IF p + 1 < PageCap THEN p + 2 ELSE PageCap

\* `page += 1`, followed exactly below PageCap
NextPageNo(p) == IF p < PageCap THEN p + 1 ELSE PageCap

----------------------------------------------------------------------------
(* Output *)

NoRec == Element(0, 0, FALSE)
Tok(s) == [s |-> s, r |-> NoRec, n |-> 0]
ObjTok(r) == [s |-> "{object}", r |-> r, n |-> 0]
WroteMsg(n) == [s |-> "Wrote n advisories to out", r |-> NoRec, n |-> n]

RECURSIVE DumpItems(_)
DumpItems(xs) ==
    IF xs = <<>> THEN <<>>
    ELSE IF Len(xs) = 1 THEN <<Tok("\n"), Tok("  "), ObjTok(xs[1])>>
    ELSE DumpItems(SubSeq(xs, 1, Len(xs) - 1))
           \o <<Tok(","), Tok("\n"), Tok("  "), ObjTok(xs[Len(xs)])>>

\* json.dumps(items, ensure_ascii=False, indent=2), as the text it produces
json_dumps(xs) ==
    IF xs = <<>> THEN <<Tok("[]")>>
    ELSE <<Tok("[")>> \o DumpItems(xs) \o <<Tok("\n"), Tok("]")>>

\* json.dump(items, f, ensure_ascii=False, indent=2): the same text, written to f
json_dump(xs) == json_dumps(xs)

\* print(x): the text and a line end
print(text) == text \o <<Tok("\n")>>

Untouched == <<Tok("<file not opened>")>>

----------------------------------------------------------------------------
(* Command line *)

NoArgs == [cmd |-> None, max_pages |-> None, out |-> None]
NoClient == [constructed |-> FALSE, token |-> None, request_timeout_s |-> 0]

MaxPagesValues == 0..MaxPagesBound
OutValues == {None, Some("out.json")}

Init ==
    /\ pc = "main"
    /\ caller = "none"
    /\ args = NoArgs
    /\ env = NoEnv
    /\ client = NoClient
    /\ sleep_s = 0
    /\ page = 1
    /\ response = NoResponse
    /\ advisories = <<>>
    /\ items = <<>>
    /\ requests = <<>>
    /\ fetched = <<>>
    /\ error = NoError
    /\ stdout = <<>>
    /\ stderr = <<>>
    /\ file = Untouched
    /\ exitCode = None

\* main(): no subcommand prints the help and returns 2
MainNoCommand ==
    /\ pc = "main"
    /\ pc' = "exit"
    /\ caller' = "cli"
    /\ stdout' = print(<<Tok("usage")>>)
    /\ exitCode' = Some(2)
    /\ UNCHANGED <<args, env, client, sleep_s, page, response, advisories, items,
                   requests, fetched, error, stderr, file>>

\* main(): the fetch-advisories subcommand, with its parsed flags
MainFetchAdvisories ==
    /\ pc = "main"
    /\ \E mp \in MaxPagesValues, out \in OutValues :
          args' = [cmd |-> Some("fetch-advisories"), max_pages |-> Some(mp),
                   out |-> out]
    /\ pc' = "config"
    /\ caller' = "cli"
    /\ UNCHANGED <<env, client, sleep_s, page, response, advisories, items, requests,
                   fetched, error, stdout, stderr, file, exitCode>>

\* a library caller: list(client.iter_advisories(max_pages=mp)), sleep_s = 0.0
CallIterAdvisories ==
    /\ pc = "main"
    /\ \E mp \in {None} \cup {Some(n) : n \in MaxPagesValues} :
          args' = [cmd |-> None, max_pages |-> mp, out |-> None]
    /\ client' = [constructed |-> TRUE, token |-> None, request_timeout_s |-> 30]
    /\ pc' = "loop"
    /\ caller' = "api"
    /\ UNCHANGED <<env, sleep_s, page, response, advisories, items, requests, fetched,
                   error, stdout, stderr, file, exitCode>>

\* both numeric variables convert: int(... or "30") and float(... or "0.0")
EnvParses(e) ==
    /\ IntParses(OrDefault(e.timeout, DefaultTimeout))
    /\ FloatParses(OrDefault(e.sleep, DefaultSleep))

\* variant of the configuration step without the try/except: the ValueError
\* ends the process with a traceback
ConfigErrorUncaught ==
    /\ pc = "config"
    /\ \E t \in TimeoutEnvValues, s \in SleepEnvValues :
          /\ env' = [timeout |-> t, sleep |-> s]
          /\ ~EnvParses(env')
    /\ stderr' = stderr \o print(<<Tok("Traceback")>>)
    /\ exitCode' = Some(1)
    /\ pc' = "exit"
    /\ UNCHANGED <<caller, args, client, sleep_s, page, response, advisories, items,
                   requests, fetched, error, stdout, file>>

\* cmd_fetch_advisories, lines 15-24: ValueError is caught, a diagnostic goes to
\* standard error and the command returns 2
ConfigError ==
    /\ pc = "config"
    /\ \E t \in TimeoutEnvValues, s \in SleepEnvValues :
          /\ env' = [timeout |-> t, sleep |-> s]
          /\ ~EnvParses(env')
    /\ stderr' = stderr \o print(<<Tok("Invalid env var")>>)
    /\ exitCode' = Some(2)
    /\ pc' = "exit"
    /\ UNCHANGED <<caller, args, client, sleep_s, page, response, advisories, items,
                   requests, fetched, error, stdout, file>>

\* cmd_fetch_advisories, lines 15-35: the configuration resolves, a missing token
\* is only warned about, the client is built.  The base URL, API version and user
\* agent only shape the request URL and headers and are not followed.
ConfigOk ==
    /\ pc = "config"
    /\ \E t \in TimeoutEnvValues, s \in SleepEnvValues, tok \in TokenValues :
          /\ env' = [timeout |-> t, sleep |-> s]
          /\ EnvParses(env')
          /\ sleep_s' = FloatMillis(OrDefault(s, DefaultSleep))
          /\ client' = [constructed |-> TRUE,
                        token |-> IF OrDefault(tok, <<>>) = <<>> THEN None ELSE tok,
                        request_timeout_s |-> IntValue(OrDefault(t, DefaultTimeout))]
          /\ stderr' = IF OrDefault(tok, <<>>) = <<>>
                         THEN stderr \o print(<<Tok("Warning: GITHUB_TOKEN not set")>>)
                         ELSE stderr
    /\ pc' = "loop"
    /\ UNCHANGED <<caller, args, page, response, advisories, items, requests, fetched,
                   error, stdout, file, exitCode>>

----------------------------------------------------------------------------
(* iter_advisories, driven to completion by list(...) *)

\* where control goes when the generator is exhausted
AfterIteration == IF caller = "cli" THEN "output" ELSE "returned"

\* the loop condition is false: the generator ends
LoopExit ==
    /\ pc = "loop"
    /\ ~LoopCond(page, args.max_pages)
    /\ pc' = AfterIteration
    /\ UNCHANGED <<caller, args, env, client, sleep_s, page, response, advisories,
                   items, requests, fetched, error, stdout, stderr, file, exitCode>>

\* one GET for `page`; the remote answers r
Request(r) ==
    /\ pc = "loop"
    /\ LoopCond(page, args.max_pages)
    /\ response' = r
    /\ requests' = IF Tracked THEN Append(requests, page) ELSE requests

\* fetch_advisories returned the list v
Returned(v) ==
    /\ advisories' = v
    /\ fetched' = IF Tracked THEN Append(fetched, v) ELSE fetched

\* variant in which a failed page is asked for again
FetchRaisesRetries ==
    /\ \E r \in HttpResponses(page) :
          /\ Request(r)
          /\ fetch_advisories(r).raised # NoError
    /\ UNCHANGED <<pc, caller, args, env, client, sleep_s, page, advisories, items,
                   fetched, error, stdout, stderr, file, exitCode>>

\* variant in which the driver emits what it has when a page fails
FetchRaisesEmitsPartial ==
    /\ \E r \in HttpResponses(page) :
          /\ Request(r)
          /\ fetch_advisories(r).raised # NoError
          /\ error' = fetch_advisories(r).raised
    /\ IF caller = "cli"
         THEN /\ pc' = "exit"
              /\ stderr' = stderr \o print(<<Tok("Traceback")>>)
              /\ stdout' = stdout \o print(json_dumps(items))
              /\ exitCode' = Some(1)
         ELSE /\ pc' = "raised"
              /\ UNCHANGED <<stdout, stderr, exitCode>>
    /\ UNCHANGED <<caller, args, env, client, sleep_s, page, advisories, items,
                   fetched, file>>

\* fetch_advisories raises: the error leaves iter_advisories and list(...);
\* in a CLI run nothing catches it, the interpreter prints it and exits with 1
FetchRaises ==
    /\ \E r \in HttpResponses(page) :
          /\ Request(r)
          /\ fetch_advisories(r).raised # NoError
          /\ error' = fetch_advisories(r).raised
    /\ IF caller = "cli"
         THEN /\ pc' = "exit"
              /\ stderr' = stderr \o print(<<Tok("Traceback")>>)
              /\ exitCode' = Some(1)
         ELSE /\ pc' = "raised"
              /\ UNCHANGED <<stderr, exitCode>>
    /\ UNCHANGED <<caller, args, env, client, sleep_s, page, advisories, items,
                   fetched, stdout, file>>

\* variant without the `break`: an empty page is stepped over
FetchEmptyContinues ==
    /\ \E r \in HttpResponses(page) :
          /\ Request(r)
          /\ fetch_advisories(r).raised = NoError
          /\ fetch_advisories(r).value = <<>>
          /\ Returned(fetch_advisories(r).value)
    /\ pc' = "yield"
    /\ UNCHANGED <<caller, args, env, client, sleep_s, page, items, error, stdout,
                   stderr, file, exitCode>>

\* fetch_advisories returns no advisory: `if not advisories: break`
FetchEmpty ==
    /\ \E r \in HttpResponses(page) :
          /\ Request(r)
          /\ fetch_advisories(r).raised = NoError
          /\ fetch_advisories(r).value = <<>>
          /\ Returned(fetch_advisories(r).value)
    /\ pc' = AfterIteration
    /\ UNCHANGED <<caller, args, env, client, sleep_s, page, items, error, stdout,
                   stderr, file, exitCode>>

\* fetch_advisories returns advisories: `yield from advisories` starts
FetchPage ==
    /\ \E r \in HttpResponses(page) :
          /\ Request(r)
          /\ fetch_advisories(r).raised = NoError
          /\ fetch_advisories(r).value # <<>>
          /\ Returned(fetch_advisories(r).value)
    /\ pc' = "yield"
    /\ UNCHANGED <<caller, args, env, client, sleep_s, page, items, error, stdout,
                   stderr, file, exitCode>>

\* one record is yielded and list(...) appends it
YieldRecord ==
    /\ pc = "yield"
    /\ advisories # <<>>
    /\ items' = IF Tracked THEN Append(items, Head(advisories)) ELSE items
    /\ advisories' = Tail(advisories)
    /\ UNCHANGED <<pc, caller, args, env, client, sleep_s, page, response, requests,
                   fetched, error, stdout, stderr, file, exitCode>>

\* `page += 1`, then time.sleep(sleep_s) when sleep_s > 0 (no effect on the state)
NextPage ==
    /\ pc = "yield"
    /\ advisories = <<>>
    /\ page' = NextPageNo(page)
    /\ pc' = "loop"
    /\ IF page' < PageCap
         THEN UNCHANGED <<items, requests, fetched>>
         ELSE items' = <<>> /\ requests' = <<>> /\ fetched' = <<>>
    /\ UNCHANGED <<caller, args, env, client, sleep_s, response, advisories, error,
                   stdout, stderr, file, exitCode>>

----------------------------------------------------------------------------
(* cmd_fetch_advisories, lines 48-55 *)

RECURSIVE DumpItemsCompact(_)
DumpItemsCompact(xs) ==
    IF xs = <<>> THEN <<>>
    ELSE IF Len(xs) = 1 THEN <<ObjTok(xs[1])>>
    ELSE DumpItemsCompact(SubSeq(xs, 1, Len(xs) - 1))
           \o <<Tok(","), Tok(" "), ObjTok(xs[Len(xs)])>>

\* variant of the file text written without indent=2
FileTextNoIndent(xs) ==
    IF xs = <<>> THEN <<Tok("[]")>>
    ELSE <<Tok("[")>> \o DumpItemsCompact(xs) \o <<Tok("]")>>

\* what goes into the file named by --out
FileText(xs) == json_dump(xs)

\* what is printed when there is no --out
StdoutText(xs) == print(json_dumps(xs))

WriteOutput ==
    /\ pc = "output"
    /\ IF ~IsNone(args.out)
         THEN /\ file' = FileText(items)
              /\ stdout' = stdout \o print(<<WroteMsg(Len(items))>>)
         ELSE /\ stdout' = stdout \o StdoutText(items)
              /\ UNCHANGED file
    /\ exitCode' = Some(0)
    /\ pc' = "exit"
    /\ UNCHANGED <<caller, args, env, client, sleep_s, page, response, advisories,
                   items, requests, fetched, error, stderr>>

----------------------------------------------------------------------------

Next ==
    \/ MainNoCommand
    \/ MainFetchAdvisories
    \/ CallIterAdvisories
    \/ ConfigError
    \/ ConfigOk
    \/ LoopExit
    \/ FetchRaises
    \/ FetchEmpty
    \/ FetchPage
    \/ YieldRecord
    \/ NextPage
    \/ WriteOutput

Spec == Init /\ [][Next]_vars

\* the interpreter always takes its next step
LiveSpec == Init /\ [][Next]_vars /\ WF_vars(Next)

----------------------------------------------------------------------------
(* Vocabulary of the properties *)

Terminated == pc \in {"exit", "returned", "raised"}

\* iter_advisories has ended without an error
IterationEnded == pc \in {"output", "returned"} \/ (pc = "exit" /\ exitCode = Some(0))

\* the logs `requests`, `fetched` and `items` are complete
Exact == page < PageCap

Ascending(rs) == \A i \in 1..Len(rs) : rs[i] = i

RECURSIVE Flatten(_)
Flatten(ps) == IF ps = <<>> THEN <<>> ELSE Head(ps) \o Flatten(Tail(ps))

IsArray(r) == r.status = 200 /\ r.body.t = "array"
IsEmptyArray(r) == IsArray(r) /\ r.body.elems = <<>>
IsEmptyBody(r) == r.status = 200 /\ r.body.t = "empty"
NoObjectIn(elems) == \A i \in 1..Len(elems) : ~elems[i].obj

\* the last fetch failed
Failing == response # NoResponse /\ fetch_advisories(response).raised # NoError

\* a numeric environment value that is present and does not convert
MalformedInt(v) == ~IsNone(v) /\ Val(v) # <<>> /\ ~IntParses(Val(v))
MalformedFloat(v) == ~IsNone(v) /\ Val(v) # <<>> /\ ~FloatParses(Val(v))

A11 == Element(1, 1, TRUE)
A12 == Element(1, 2, TRUE)
A21 == Element(2, 1, TRUE)

----------------------------------------------------------------------------
(* C1: with max_pages = N >= 0 a run issues at most N page fetches; with    *)
(* N = 0 it issues none and yields nothing.                                 *)
C1_AtMostMaxPagesFetches ==
    ~IsNone(args.max_pages) =>
        /\ page <= Val(args.max_pages) + 1
        /\ Len(requests) <= Val(args.max_pages)
        /\ Val(args.max_pages) = 0 => (response = NoResponse /\ items = <<>>)

\* a run that the limit ended: MaxPagesBound non-empty pages, then no further fetch
C1_Witness ==
    /\ pc = "returned"
    /\ args.max_pages = Some(MaxPagesBound)
    /\ Len(requests) = MaxPagesBound
    /\ page = MaxPagesBound + 1
    /\ Len(items) >= MaxPagesBound

(* C2: the iteration ends on the first page that decodes to an empty array, *)
(* whatever max_pages is: once that page has arrived the generator is       *)
(* finished, it was the last page asked for, and nothing is left to yield.  *)
C2_StopsAtFirstEmptyPage ==
    IsEmptyArray(response) =>
        /\ pc \in {"output", "exit", "returned"}
        /\ error = NoError
        /\ advisories = <<>>
        /\ Exact => /\ Len(requests) = page
                    /\ requests[page] = page
                    /\ fetched[page] = <<>>
                    /\ Len(items) = Len(Flatten(fetched))

\* max_pages unset, page 1 held records, page 2 came back empty
C2_Witness ==
    /\ IsEmptyArray(response)
    /\ caller = "api"
    /\ IsNone(args.max_pages)
    /\ pc = "returned"
    /\ requests = <<1, 2>>
    /\ items # <<>>

(* C3: when no fetch fails, pages are asked for as 1, 2, 3, ... each once,  *)
(* and what is yielded is the concatenation, in page order and in each      *)
(* page's own order, of the records of the pages fetched; every page but    *)
(* the last held a record, and the run ends after an empty page or at the   *)
(* max_pages limit.                                                         *)
C3_YieldsPagesInOrder ==
    (Exact /\ error = NoError) =>
        /\ Ascending(requests)
        /\ Len(fetched) = Len(requests)
        /\ items \o advisories = Flatten(fetched)
        /\ \A i \in 1..(Len(fetched) - 1) : fetched[i] # <<>>
        /\ (IterationEnded /\ caller # "none") =>
              /\ advisories = <<>>
              /\ \/ (fetched # <<>> /\ fetched[Len(fetched)] = <<>>)
                 \/ (~IsNone(args.max_pages) /\ Len(requests) = Val(args.max_pages)
                       /\ page = Val(args.max_pages) + 1)

\* the pages [[a, b], [c], []] under a limit that does not bind: [a, b, c]
\* after exactly three fetches
C3_Witness ==
    /\ pc = "returned"
    /\ requests = <<1, 2, 3>>
    /\ fetched = << <<A11, A12>>, <<A21>>, <<>> >>
    /\ items = <<A11, A12, A21>>
    /\ error = NoError

(* C4, as claimed: whatever max_pages is and whatever the remote answers,   *)
(* the iteration eventually terminates.                                     *)
C4_AlwaysTerminates == <>Terminated

(* C4, amended: with a numeric max_pages the iteration eventually           *)
(* terminates whatever the remote answers; with max_pages unset it ends     *)
(* only on a page without records or on a failed fetch.                     *)
C4_TerminatesWhenBounded ==
    /\ [](~IsNone(args.max_pages) => <>Terminated)
    /\ []((Terminated /\ caller = "api" /\ IsNone(args.max_pages)) =>
             \/ fetch_advisories(response).raised # NoError
             \/ fetch_advisories(response).value = <<>>)

\* a command-line run that max_pages ended
C4_Witness ==
    /\ Terminated
    /\ caller = "cli"
    /\ args.max_pages = Some(MaxPagesBound)
    /\ Len(requests) = MaxPagesBound
    /\ ~IsEmptyArray(response)
    /\ exitCode = Some(0)

(* C5: a failed fetch (non-success status, or a body that is not an array)  *)
(* is not retried and ends the iteration: page k was asked for once, it is  *)
(* the last request, and the error leaves iter_advisories.                  *)
C5_FailureEndsIteration ==
    /\ Failing =>
          /\ error = fetch_advisories(response).raised
          /\ pc \in {"exit", "raised"}
          /\ caller = "cli" => exitCode = Some(1)
          /\ Exact => /\ Ascending(requests)
                      /\ Len(requests) = page
                      /\ Len(fetched) = page - 1
    /\ error # NoError => Failing

\* page 1 delivered records, page 2 answered 403
C5_Witness ==
    /\ error = HttpError(403)
    /\ pc = "raised"
    /\ requests = <<1, 2>>
    /\ items # <<>>

(* C6: the driver has no partial-success mode: when a fetch fails nothing   *)
(* is written to the --out file or to standard output; output exists only   *)
(* after the whole iteration ended without error.                           *)
C6_NoPartialOutput ==
    /\ error # NoError => (file = Untouched /\ stdout = <<>>)
    /\ (file # Untouched \/ (stdout # <<>> /\ ~IsNone(args.cmd))) =>
          /\ pc = "exit"
          /\ exitCode = Some(0)
          /\ error = NoError
          /\ advisories = <<>>

\* records were collected, then a page failed: --out was given, no file exists
C6_Witness ==
    /\ caller = "cli"
    /\ error # NoError
    /\ items # <<>>
    /\ ~IsNone(args.out)
    /\ file = Untouched
    /\ stdout = <<>>
    /\ exitCode = Some(1)

(* C7: a numeric environment value that is present and does not convert     *)
(* (GITHUB_TIMEOUT_S not an integer, GITHUB_API_SLEEP_S not a float) makes  *)
(* the driver print a diagnostic to standard error and return 2, before any *)
(* request and without any output.                                          *)
C7_BadEnvExitsBeforeFetch ==
    (MalformedInt(env.timeout) \/ MalformedFloat(env.sleep)) =>
        /\ pc = "exit"
        /\ exitCode = Some(2)
        /\ stderr = print(<<Tok("Invalid env var")>>)
        /\ requests = <<>>
        /\ response = NoResponse
        /\ ~client.constructed
        /\ stdout = <<>>
        /\ file = Untouched

\* GITHUB_TIMEOUT_S=x
C7_Witness ==
    /\ env.timeout = Some(<<"x">>)
    /\ pc = "exit"
    /\ exitCode = Some(2)
    /\ requests = <<>>

(* C8, as claimed: a success response with an empty body is not an error,   *)
(* fetching that page does not fail.                                        *)
C8_EmptyBodyFetchSucceeds == IsEmptyBody(response) => error = NoError

(* C8, amended: a success response with an empty body is not an error of    *)
(* _fetch_json, which decodes it to None; fetch_advisories then fails on    *)
(* it as on every decoded value that is not a list, absent or present.      *)
C8_EmptyBodyIsNotAList ==
    /\ IsEmptyBody(response) =>
          /\ _fetch_json(response).raised = NoError
          /\ _fetch_json(response).value = PyNone
          /\ error = NotListError("NoneType")
          /\ pc \in {"exit", "raised"}
    /\ error.msg = NotListError("").msg <=>
          (response.status = 200 /\ response.body.t # "array")

\* a command-line run whose first page came back 200 with no body
C8_Witness ==
    /\ IsEmptyBody(response)
    /\ error = NotListError("NoneType")
    /\ caller = "cli"
    /\ exitCode = Some(1)

(* C9, as claimed: the file written for --out is byte for byte what the     *)
(* same run would print to standard output without --out, ending included.  *)
C9_FileEqualsStdoutBytes ==
    (pc = "exit" /\ exitCode = Some(0) /\ ~IsNone(args.out)) =>
        file = StdoutText(items)

(* C9, amended: the file written for --out is what the same run would print *)
(* to standard output without --out, less the line end that print appends;  *)
(* the run with --out prints only the confirmation message.                 *)
C9_FileIsStdoutLessLineEnd ==
    (pc = "exit" /\ exitCode = Some(0)) =>
        IF ~IsNone(args.out)
          THEN /\ print(file) = StdoutText(items)
               /\ stdout = print(<<WroteMsg(Len(items))>>)
          ELSE /\ stdout = StdoutText(items)
               /\ file = Untouched

\* a run with --out that wrote two or more records
C9_Witness ==
    /\ pc = "exit"
    /\ exitCode = Some(0)
    /\ ~IsNone(args.out)
    /\ Len(items) >= 2
    /\ file # Untouched

(* C10: entries that are not objects are dropped before the emptiness test: *)
(* a non-empty array without any object ends the iteration like an empty    *)
(* page, whatever max_pages still allows.                                   *)
C10_ObjectFreePageEndsIteration ==
    (IsArray(response) /\ response.body.elems # <<>>
       /\ NoObjectIn(response.body.elems)) =>
        /\ pc \in {"output", "exit", "returned"}
        /\ error = NoError
        /\ advisories = <<>>
        /\ \A i \in 1..Len(items) : items[i].obj
        /\ Exact => (Len(requests) = page /\ fetched[page] = <<>>)

\* page 1 of MaxPagesBound allowed pages held only non-objects: one fetch, no record
C10_Witness ==
    /\ IsArray(response)
    /\ response.body.elems # <<>>
    /\ NoObjectIn(response.body.elems)
    /\ args.max_pages = Some(MaxPagesBound)
    /\ requests = <<1>>
    /\ items = <<>>
    /\ exitCode = Some(0)

====
